---- MODULE Spec2Model ----
(***************************************************************************)
(* Retrieval-and-verification pipeline of the RAG backend.                 *)
(*                                                                         *)
(* Three versions of retrieveContext exist in the sources:                 *)
(*   "optimized"  main/retrieval.ts with verifyRelevanceOptimized and the  *)
(*                cross-reference strategies (retry loop),                 *)
(*   "strict"     main/retrieval.ts with verifyRelevance (retry loop),     *)
(*   "single"     backend/src/main/retrieval.ts, one pass over the         *)
(*                Pinecone dense+sparse indexes, no retry loop.            *)
(* Scores are integers: similarity and BM25 scores in twentieths, Pinecone *)
(* scores in thousandths, RRF scores as exact multiples of 1/RrfScale.     *)
(***************************************************************************)
EXTENDS Integers, Sequences, FiniteSets, TLC

\* ---------------------------------------------------------------- bounds
MaxAttemptsBound == 3
MaxHits == 2
MaxCands == 3
PairAttempts == 2
MaxTexts == 3

\* ------------------------------------------------------ program constants
DefaultMaxAttempts == 3
DefaultTopK == 10
DefaultK == 60
RrfLimitRetry == 5
RrfLimitSingle == 10
DenseWeight == 7
SparseWeight == 3
ScoreFloor == 1

\* --------------------------------------------------------------- chunks
NoClient == 0 - 1

Chunk(src, file, type, client, parent) ==
    [source |-> src, id |-> "", fileName |-> file, type |-> type,
     clientId |-> client, parentId |-> parent]

D1 == Chunk("policy.pdf_parent_0_child_0", "policy.pdf", "document", NoClient, "p0")
D2 == Chunk("policy.pdf_parent_0_child_1", "policy.pdf", "document", NoClient, "p0")
T1 == Chunk("nathan-03-14.pdf_parent_0_child_0", "nathan-03-14.pdf", "transcript", 1, "p1")
T2 == Chunk("robert-12-25.pdf_parent_0_child_0", "robert-12-25.pdf", "transcript", 2, "p2")

DocumentChunks == {D1, D2}
TranscriptChunks == {T1, T2}

\* userId === 'nathan' ? 1 : userId === 'robert' ? 2 : 0
ClientIdOf(user) == IF user = "nathan" THEN 1 ELSE IF user = "robert" THEN 2 ELSE 0

\* ------------------------------------------------------------ sequences
RECURSIVE SumSeq(_)
SumSeq(s) == IF s = <<>> THEN 0 ELSE Head(s) + SumSeq(Tail(s))

Range(s) == {s[i] : i \in DOMAIN s}

Take(s, n) == SubSeq(s, 1, IF Len(s) < n THEN Len(s) ELSE n)

MaxOf(S, floor) == IF S = {} THEN floor
                   ELSE LET m == CHOOSE x \in S : \A y \in S : y <= x
                        IN IF m < floor THEN floor ELSE m

\* sequences over S without repetition, of length at most n
Arrangements(S, n) ==
    {s \in UNION {[1..m -> S] : m \in 0..n} :
        \A i, j \in DOMAIN s : i # j => s[i] # s[j]}

\* body(v) with v computed once
With(v, body(_)) == CHOOSE r \in {body(x) : x \in {v}} : TRUE

\* Array.prototype.sort with a comparator (b, a) => b.key - a.key: a stable
\* sort, descending by key; keys[i] is the key of s[i].
SortDescBy(s, keys) ==
    With(<<s, keys>>, LAMBDA a :
        LET n == Len(a[1])
            Before(i, j) == a[2][i] > a[2][j] \/ (a[2][i] = a[2][j] /\ i < j)
            Pos(i) == 1 + Cardinality({j \in 1..n : Before(j, i)})
        IN [p \in 1..n |-> a[1][CHOOSE i \in 1..n : Pos(i) = p]])

\* the distinct elements of s in order of first occurrence (Map / Set order)
Distinct(s) ==
    With(s, LAMBDA a :
        LET firsts == {i \in DOMAIN a : \A j \in 1..(i - 1) : a[j] # a[i]}
            Pos(i) == Cardinality({j \in firsts : j <= i})
        IN [p \in 1..Cardinality(firsts) |-> a[CHOOSE i \in firsts : Pos(i) = p]])

\* ------------------------------------------------- reciprocal rank fusion
DocIdOf(doc) == IF doc.source # "" THEN doc.source ELSE doc.id

RECURSIVE RrfScale(_, _)
RrfScale(k, n) == IF n = 0 THEN 1 ELSE (k + n) * RrfScale(k, n - 1)

\* 1 / (k + index + 1), index counted from 0, in units of 1/RrfScale(k, n)
RrfWeight(k, n, index) == RrfScale(k, n) \div (k + index + 1)

\* rrfScores after both forEach loops: total score of docId
RrfTotal(docId, denseRanked, sparseRanked, k) ==
    LET n == Len(denseRanked)
        part(ranked) == SumSeq([i \in 1..n |->
                           IF DocIdOf(ranked[i].document) = docId
                           THEN RrfWeight(k, n, i - 1) ELSE 0])
    IN part(denseRanked) + part(sparseRanked)

ReciprocalRankFusion(results, k, limit) ==
    LET n == Len(results)
        find(docId) == results[CHOOSE i \in 1..n :
                          /\ DocIdOf(results[i].document) = docId
                          /\ \A j \in 1..(i - 1) : DocIdOf(results[j].document) # docId]
    IN With(<<SortDescBy(results, [i \in 1..n |-> results[i].denseScore]),
              SortDescBy(results, [i \in 1..n |-> results[i].sparseScore])>>,
            LAMBDA ranked :
        With(Distinct([i \in 1..(2 * n) |->
                 IF i <= n THEN DocIdOf(ranked[1][i].document)
                 ELSE DocIdOf(ranked[2][i - n].document)]),
             LAMBDA keys :
        With(SortDescBy(keys, [i \in 1..Len(keys) |->
                 RrfTotal(keys[i], ranked[1], ranked[2], k)]),
             LAMBDA sorted :
                 [p \in 1..Len(Take(sorted, limit)) |-> find(sorted[p]).document])))

\* results.sort(...) without the copy: the argument array is left in sparse order
ResultsSortedInPlace(results) ==
    SortDescBy(results, [i \in 1..Len(results) |-> results[i].sparseScore])

\* the argument array after the call: both sorts work on a copy ([...results])
ResultsAfterFusion(results) == results

\* ------------------------------------------------------------------ state
VARIABLES
    variant,                \* which version of retrieveContext is deployed
    docVectorStore,         \* [ready, docs]: document vector store / dense index
    transcriptVectorStore,  \* [ready, docs]: transcript vector store / dense index
    bm25Storage,            \* per corpus [index, documents, k]
    docRetriever,           \* TRUE when the parent document retriever exists
    calls,                  \* the calls in progress or finished
    entry,                  \* per call: "retrieveContext" or "processQuery"
    userId,                 \* per call: the userId argument ("" when missing)
    maxAttempts,            \* per call: the maxAttempts argument
    pc,                     \* per call: position in retrieveContext
    attempts,               \* per call: let attempts
    currentQuery,           \* per call: let currentQuery
    intent,                 \* per call: const intent of the current attempt
    hybridResults,          \* per call: const hybridResults
    rerankedDocuments,      \* per call: const rerankedDocuments
    finalChunks,            \* per call: let finalChunks
    outcome,                \* per call: "running", "returned" or "thrown"
    exit,                   \* per call: the return or throw statement taken
    result,                 \* per call: the RetrievalResult returned
    pqResult,               \* per call: what processQuery returned
    nClassify,              \* per call: analyzeQueryIntent invocations
    allZero,                \* per call: every attempt so far dispatched a search and found nothing
    allRefused,             \* per call: every attempt so far ended in a gate refusal
    verifyFailed,           \* per call: the attempt in progress passed the gate on a failed verification call
    fusionInput,            \* the candidate array handed to reciprocalRankFusion
    fusionK,                \* the k handed to reciprocalRankFusion
    fused,                  \* the outputs of the invocations so far
    generator,              \* the fields of documentSparseGenerator
    lastCorpus,             \* the argument of the last buildVocabulary call
    builds,                 \* buildVocabulary calls so far: 0, 1, or 2 for two and more
    sparseCalls,            \* generateSparseEmbedding calls since the last build: [text, sparse]
    pineconeCall,           \* the performPineconeHybridSearch call since the last build
    bm25Call,               \* the last direct searchBM25 call: arguments and results
    ingested                \* the files whose ingestion iteration completed

vars == <<variant, docVectorStore, transcriptVectorStore, bm25Storage, docRetriever,
          calls, entry, userId, maxAttempts, pc, attempts, currentQuery, intent,
          hybridResults, rerankedDocuments, finalChunks, outcome, exit, result,
          pqResult, nClassify, allZero, allRefused, verifyFailed,
          fusionInput, fusionK, fused,
          generator, lastCorpus, builds, sparseCalls, pineconeCall, bm25Call, ingested>>

storeVars == <<variant, docVectorStore, transcriptVectorStore, docRetriever, calls,
               entry, userId, maxAttempts, ingested>>
fusionVars == <<fusionInput, fusionK, fused>>
sparseVars == <<generator, lastCorpus, builds, sparseCalls, pineconeCall>>
callVars == <<pc, attempts, currentQuery, intent, hybridResults, rerankedDocuments,
              finalChunks, outcome, exit, result, pqResult, nClassify, allZero, allRefused,
              verifyFailed>>

Slots == {1, 2}
RetryVariants == {"optimized", "strict"}
Variants == RetryVariants \cup {"single"}

\* ------------------------------------------------- lexical search (BM25)
\* scores 1 - index * 0.1, in twentieths
BM25Results(docs) == [i \in 1..Len(docs) |-> [document |-> docs[i], score |-> 20 - 2 * (i - 1)]]

\* the documents the retriever used by searchBM25 ranks
SearchBM25Pool(indexName, preFilteredDocs) ==
    IF ~bm25Storage[indexName].index THEN {}
    ELSE IF preFilteredDocs # {} THEN preFilteredDocs
    ELSE bm25Storage[indexName].documents

\* every list searchBM25 can return: the retriever's top topK, or [] when the
\* retriever is missing or throws
SearchBM25(indexName, topK, preFilteredDocs) ==
    {BM25Results(docs) :
        docs \in Arrangements(SearchBM25Pool(indexName, preFilteredDocs),
                              IF topK < MaxHits THEN topK ELSE MaxHits)}

\* bm25Retriever.k = topK
BM25StorageAfterSearch(storage, indexName, topK) ==
    IF storage[indexName].index
    THEN [storage EXCEPT ![indexName].k = topK]
    ELSE storage

\* ------------------------------------- hybrid search over the vector store
SemanticScores == {16}

VectorStoreOf(type) == IF type = "documents" THEN docVectorStore ELSE transcriptVectorStore

\* vectorStore.similaritySearch("", 1000, clientFilter)
ClientDocs(type, client) ==
    IF type = "transcripts"
    THEN {d \in VectorStoreOf(type).docs : d.clientId = client}
    ELSE VectorStoreOf(type).docs

\* every answer of similaritySearchWithScore(query, topK, clientFilter)
SimilaritySearchWithScore(type, client, topK) ==
    {[i \in 1..Len(docs) |-> [document |-> docs[i], score |-> sc[i]]] :
        <<docs, sc>> \in
            {p \in Arrangements(ClientDocs(type, client), IF topK < MaxHits THEN topK ELSE MaxHits)
                   \X UNION {[1..m -> SemanticScores] : m \in 0..MaxHits} :
                /\ Len(p[1]) = Len(p[2])
                /\ \A i \in 1..(Len(p[2]) - 1) : p[2][i] >= p[2][i + 1]}}

SearchKeyOf(doc) == IF doc.source # "" THEN doc.source
                    ELSE IF doc.fileName # "" THEN doc.fileName ELSE doc.id

RECURSIVE AverageInto(_, _)
AverageInto(score, more) ==
    IF more = <<>> THEN score ELSE AverageInto((score + Head(more)) \div 2, Tail(more))

\* combinedResults (a Map keyed by source) sorted by score, first topK
CombineHybrid(semanticResults, bm25Results, topK) ==
    LET ns == Len(semanticResults)
        nb == Len(bm25Results)
        semOf(key) == {i \in 1..ns : SearchKeyOf(semanticResults[i].document) = key}
        bmOf(key) == SelectSeq(bm25Results, LAMBDA r : SearchKeyOf(r.document) = key)
        last(S) == CHOOSE i \in S : \A j \in S : j <= i
        entryOf(key) ==
            With(<<semOf(key), bmOf(key)>>, LAMBDA of :
                IF of[1] # {}
                THEN [document |-> semanticResults[last(of[1])].document,
                      score |-> AverageInto(semanticResults[last(of[1])].score,
                                            [i \in 1..Len(of[2]) |-> of[2][i].score]),
                      source |-> "semantic"]
                ELSE [document |-> Head(of[2]).document,
                      score |-> AverageInto(Head(of[2]).score,
                                            [i \in 1..(Len(of[2]) - 1) |-> of[2][i + 1].score]),
                      source |-> "bm25"])
    IN With(Distinct([i \in 1..(ns + nb) |->
                IF i <= ns THEN SearchKeyOf(semanticResults[i].document)
                ELSE SearchKeyOf(bm25Results[i - ns].document)]),
            LAMBDA keys :
        With([i \in 1..Len(keys) |-> entryOf(keys[i])], LAMBDA values :
            Take(SortDescBy(values, [i \in 1..Len(values) |-> values[i].score]), topK)))

\* every list performHybridSearch(query, userId, type) can return
PerformHybridSearch(client, type) ==
    {CombineHybrid(sem, bm, DefaultTopK) :
        <<sem, bm>> \in SimilaritySearchWithScore(type, client, DefaultTopK)
                        \X SearchBM25(type, DefaultTopK, ClientDocs(type, client))}

\* searchResults.map(...) in retrieveContext
HybridResultsOf(searchResults) ==
    [i \in 1..Len(searchResults) |->
        [document |-> searchResults[i].document,
         denseScore |-> IF searchResults[i].source = "semantic" THEN searchResults[i].score ELSE 0,
         sparseScore |-> IF searchResults[i].source = "bm25" THEN searchResults[i].score ELSE 0,
         combinedScore |-> searchResults[i].score]]

\* -------------------------------- hybrid search over the Pinecone indexes
PineconeScores == {400, 800}

\* a match of the dense index: the vector id is generated by the store, the
\* metadata is the chunk's metadata
DenseMatch(ch, score) == [id |-> <<"dense", ch.source>>, score |-> score, metadata |-> ch]

\* the metadata storeSparseEmbeddings writes: no source, id or parentId
SparseMetadata(ch) ==
    [source |-> "", id |-> "", fileName |-> ch.fileName, type |-> ch.type,
     clientId |-> IF ch.clientId = NoClient THEN 0 ELSE ch.clientId, parentId |-> ""]

\* a match of the sparse index: id is doc.metadata.id || `${type}_${Date.now()}_${Math.random()}`
SparseMatch(ch, score) ==
    [id |-> <<"sparse", ch.source>>, score |-> score, metadata |-> SparseMetadata(ch)]

\* if (type === 'transcripts' && userId) searchParams.filter = { clientId: userId }
PineconePool(type, client) ==
    IF type = "transcripts" /\ client # 0
    THEN {d \in VectorStoreOf(type).docs : d.clientId = client}
    ELSE VectorStoreOf(type).docs

\* every answer of index.query: ranked matches built by Match(chunk, score)
IndexQuery(pool, Match(_, _)) ==
    {[i \in 1..Len(p[1]) |-> Match(p[1][i], p[2][i])] :
        p \in {q \in Arrangements(pool, MaxHits)
                     \X UNION {[1..m -> PineconeScores] : m \in 0..MaxHits} :
                 /\ Len(q[1]) = Len(q[2])
                 /\ \A i \in 1..(Len(q[2]) - 1) : q[2][i] >= q[2][i + 1]}}

CombineSearchResults(denseMatches, sparseMatches) ==
    LET nd == Len(denseMatches)
        ns == Len(sparseMatches)
        last(S) == CHOOSE i \in S : \A j \in S : j <= i
        inDense(id) == {i \in 1..nd : denseMatches[i].id = id}
        inSparse(id) == {i \in 1..ns : sparseMatches[i].id = id}
        denseScore(id) == IF inDense(id) = {} THEN 0 ELSE denseMatches[last(inDense(id))].score
        sparseScore(id) == IF inSparse(id) = {} THEN 0 ELSE sparseMatches[last(inSparse(id))].score
        documentOf(id) == IF inDense(id) # {} THEN denseMatches[last(inDense(id))].metadata
                          ELSE sparseMatches[CHOOSE i \in inSparse(id) :
                                                \A j \in inSparse(id) : i <= j].metadata
        hybrid(id, maxDenseScore, maxSparseScore) ==
            With(<<(denseScore(id) * 1000) \div maxDenseScore,
                   (sparseScore(id) * 1000) \div maxSparseScore>>, LAMBDA normalized :
                [document |-> documentOf(id),
                 denseScore |-> normalized[1],
                 sparseScore |-> normalized[2],
                 combinedScore |-> normalized[1] * DenseWeight
                                   + normalized[2] * SparseWeight])
    IN With(<<Distinct([i \in 1..(nd + ns) |->
                  IF i <= nd THEN denseMatches[i].id ELSE sparseMatches[i - nd].id]),
              MaxOf({denseMatches[i].score : i \in 1..nd}, ScoreFloor),
              MaxOf({sparseMatches[i].score : i \in 1..ns}, ScoreFloor)>>,
            LAMBDA m :
        With([i \in 1..Len(m[1]) |-> hybrid(m[1][i], m[2], m[3])], LAMBDA hybridResults0 :
            SortDescBy(hybridResults0,
                       [i \in 1..Len(hybridResults0) |-> hybridResults0[i].combinedScore])))

\* every list performPineconeHybridSearch(query, type, userId, topK) can return;
\* any exception (embedding failure, index not initialized) yields []
PerformPineconeHybridSearch(type, client, topK) ==
    {<<>>} \cup
    IF ~VectorStoreOf(type).ready THEN {}
    ELSE {Take(CombineSearchResults(d, s), topK) :
            <<d, s>> \in IndexQuery(PineconePool(type, client), DenseMatch)
                         \X IndexQuery(PineconePool(type, client), SparseMatch)}

\* --------------------------------------------------- language-model calls
FallbackIntent == [queryType |-> "mixed", confidence |-> 5]

\* the block-scoped intent before analyzeQueryIntent has answered
NoIntent == [queryType |-> "none", confidence |-> 0]

\* the replies of the classification model: a failure (call throws, or the
\* text is not JSON), or a JSON value, returned as parsed
IntentReplies ==
    {[ok |-> FALSE, json |-> FallbackIntent]} \cup
    {[ok |-> TRUE, json |-> [queryType |-> t, confidence |-> 9]] :
        t \in IF variant = "optimized"
              THEN {"document", "transcript", "mixed",
                    "document_then_transcript", "transcript_then_document"}
              ELSE {"document", "transcript", "mixed"}} \cup
    {[ok |-> TRUE, json |-> [queryType |-> "factual", confidence |-> 7]]}

AnalyzeQueryIntent(reply) == IF reply.ok THEN reply.json ELSE FallbackIntent

VerifierReplies == {"YES", "NO", "YES, PARTIALLY", "error"}

\* search/index.ts verifyRelevance: exactly YES; a failed call counts as NO
VerifyRelevance(chunks, reply) ==
    IF Len(chunks) = 0 THEN FALSE
    ELSE IF reply = "error" THEN FALSE
    ELSE reply = "YES"

\* verifyRelevanceOptimized: any reply containing YES; a failed call counts as YES
VerifyRelevanceOptimized(chunks, reply) ==
    IF Len(chunks) = 0 THEN FALSE
    ELSE IF reply = "error" THEN TRUE
    ELSE reply \in {"YES", "YES, PARTIALLY"}

\* a query text: rev counts the rewrites, keyword tells whether the text
\* contains 'recommend', 'suggest' or 'program'
Query(rev, keyword) == [rev |-> rev, keyword |-> keyword]

\* only the "optimized" version reads the keywords of a query
Keywords == IF variant = "optimized" THEN BOOLEAN ELSE {FALSE}

\* every value reformulateQuery(originalQuery, retrievalAttempts) can return:
\* the model's text, or originalQuery when the call fails
ReformulateQuery(originalQuery, retrievalAttempts) ==
    {originalQuery} \cup {Query(originalQuery.rev + 1, kw) : kw \in Keywords}

\* ------------------------------------------------------ retrieval results
NoResult == [content |-> "", confidence |-> 0, sources |-> <<>>, searchStrategy |-> "none"]

FailedResult ==
    [content |-> "", confidence |-> 0, sources |-> <<>>, searchStrategy |-> "failed"]

\* the refusal on the last attempt reported with the tag of an empty search
NonRelevantAsFailed ==
    [content |-> "", confidence |-> 0, sources |-> <<>>, searchStrategy |-> "failed"]

NonRelevantResult ==
    [content |-> "", confidence |-> 0, sources |-> <<>>,
     searchStrategy |-> "max-attempts-non-relevant"]

MaxAttemptsReachedResult ==
    [content |-> "", confidence |-> 0, sources |-> <<>>,
     searchStrategy |-> "max-attempts-reached"]

\* sources built without the Set: one entry per chunk
SourcesWithDuplicates(chunks) ==
    [i \in 1..Len(chunks) |-> [type |-> "document", id |-> chunks[i].fileName, score |-> 10]]

\* [...new Set(finalChunks.map(chunk => chunk.metadata.fileName))]
SourcesOf(chunks) ==
    LET names == Distinct([i \in 1..Len(chunks) |-> chunks[i].fileName])
    IN [i \in 1..Len(names) |-> [type |-> "document", id |-> names[i], score |-> 10]]

\* a tag that names the attempt
SuccessTagPerAttempt(attempt) ==
    IF attempt = 1 THEN "hybrid" ELSE "verified-hybrid-retrieval-attempt-n"

\* searchStrategy: 'hybrid'
SuccessTag(attempt) == "hybrid"



SuccessResult(answer, chunks, confidence, attempt) ==
    [content |-> answer, sources |-> SourcesOf(chunks), confidence |-> confidence,
     searchStrategy |-> SuccessTag(attempt)]

\* ---------------------------------------------------------- control flow
\* while (attempts <= maxAttempts)
LoopGuardInclusive(a, m) == a <= m

\* while (attempts < maxAttempts)
LoopGuard(a, m) == a < m

\* a catch block that never rethrows
RethrowsNever(a, m) == FALSE

\* a catch block that rethrows in every attempt
RethrowsAlways(a, m) == TRUE

\* if (attempts === maxAttempts) throw error
Rethrows(a, m) == a = m

\* if (attempts < maxAttempts - 1)
MayRetryOffByOne(a, m) == a < m - 1

\* if (attempts < maxAttempts) reformulate and continue
MayRetry(a, m) == a < m

Returns(c, res, ex) ==
    /\ pc' = [pc EXCEPT ![c] = "done"]
    /\ outcome' = [outcome EXCEPT ![c] = "returned"]
    /\ result' = [result EXCEPT ![c] = res]
    /\ exit' = [exit EXCEPT ![c] = ex]

Throws(c) ==
    /\ pc' = [pc EXCEPT ![c] = "done"]
    /\ outcome' = [outcome EXCEPT ![c] = "thrown"]
    /\ exit' = [exit EXCEPT ![c] = "throw"]
    /\ UNCHANGED result

\* a loop that hands the fused list to the verifier without expanding it
GoesPastExpansion(c, p) ==
    /\ pc' = [pc EXCEPT ![c] = IF p = "expand" THEN "verify" ELSE p]
    /\ UNCHANGED <<outcome, result, exit>>

Goes(c, p) ==
    /\ pc' = [pc EXCEPT ![c] = p]
    /\ UNCHANGED <<outcome, result, exit>>

\* the catch block of retrieveContext; the single-pass version always rethrows
Caught(c) ==
    IF variant = "single" \/ Rethrows(attempts[c], maxAttempts[c])
    THEN Throws(c)
    ELSE Goes(c, "while")

\* the attempt ended otherwise than by an empty search / by a gate refusal
NotZero(c) == allZero' = [allZero EXCEPT ![c] = FALSE]
NotRefused(c) == allRefused' = [allRefused EXCEPT ![c] = FALSE]

\* ------------------------------------------------------- search dispatch
Thrown == [kind |-> "throw", list |-> <<>>, searched |-> TRUE]
Found(list) == [kind |-> "results", list |-> list, searched |-> TRUE]

\* the outcomes of one performHybridSearch call: the store is missing or a
\* collaborator call fails (throw), or a candidate list
HybridSearch(client, type) ==
    {Thrown} \cup
    IF ~VectorStoreOf(type).ready THEN {}
    ELSE {Found(r) : r \in PerformHybridSearch(client, type)}

\* first, then second (computed from the first result) and joined by Join
Chain(first, Second(_), Join(_, _)) ==
    UNION {IF a.kind = "throw" THEN {Thrown}
           ELSE {IF b.kind = "throw" THEN Thrown ELSE Found(Join(a.list, b.list)) :
                    b \in Second(a.list)} : a \in first}

Both(client) ==
    Chain(HybridSearch(0, "documents"),
          LAMBDA d : HybridSearch(client, "transcripts"),
          LAMBDA d, t : d \o t)

DocumentsAnd(user, client) ==
    IF user # "" THEN Both(client) ELSE HybridSearch(0, "documents")

MissingScope == {[kind |-> "missing-scope", list |-> <<>>, searched |-> FALSE]}

\* part_008 lines 491-509
DispatchStrict(queryType, user, client) ==
    IF queryType = "document" THEN HybridSearch(0, "documents")
    ELSE IF queryType = "transcript"
    THEN IF user = "" THEN MissingScope ELSE HybridSearch(client, "transcripts")
    ELSE DocumentsAnd(user, client)

\* part_008 lines 83-200
DispatchOptimized(queryType, user, client, query) ==
    IF queryType = "document" THEN HybridSearch(0, "documents")
    ELSE IF queryType = "transcript"
    THEN IF user = "" THEN MissingScope ELSE HybridSearch(client, "transcripts")
    ELSE IF queryType = "document_then_transcript"
    THEN Chain(HybridSearch(0, "documents"),
               LAMBDA d : IF Len(d) > 0 /\ user # ""
                          THEN HybridSearch(client, "transcripts") ELSE {Found(<<>>)},
               LAMBDA d, t : IF Len(d) > 0 /\ user # "" THEN Take(d, 2) \o t ELSE d)
    ELSE IF queryType = "transcript_then_document"
    THEN IF user = "" THEN MissingScope
         ELSE UNION {IF t.kind = "throw" THEN {Thrown}
                     ELSE IF Len(t.list) = 0
                     THEN {[kind |-> "no-client-context", list |-> <<>>, searched |-> TRUE]}
                     ELSE {IF d.kind = "throw" THEN Thrown
                           ELSE Found(Take(t.list, 2) \o d.list) :
                              d \in HybridSearch(0, "documents")} :
                        t \in HybridSearch(client, "transcripts")}
    ELSE IF user # "" /\ query.keyword
    THEN UNION {IF u.kind = "throw" THEN {Thrown}
                ELSE IF Len(u.list) > 0
                THEN {IF d.kind = "throw" THEN Thrown
                      ELSE Found(Take(u.list, 2) \o d.list) :
                         d \in HybridSearch(0, "documents")}
                ELSE Both(client) :
                   u \in HybridSearch(client, "transcripts")}
    ELSE DocumentsAnd(user, client)

\* retrieval.ts lines 69-75 with the searches of handleDocumentOnlyQuery and
\* handleTranscriptOnlyQuery; the lists are HybridSearchResult[] already
DispatchSingle(queryType, user, client) ==
    IF queryType = "transcript"
    THEN IF client = 0 THEN {[kind |-> "throw", list |-> <<>>, searched |-> FALSE]}
         ELSE {Found(r) : r \in PerformPineconeHybridSearch("transcripts", client, DefaultTopK)}
    ELSE {Found(r) : r \in PerformPineconeHybridSearch("documents", 0, DefaultTopK)}

Dispatch(c) ==
    IF variant = "strict"
    THEN DispatchStrict(intent[c].queryType, userId[c], ClientIdOf(userId[c]))
    ELSE IF variant = "optimized"
    THEN DispatchOptimized(intent[c].queryType, userId[c], ClientIdOf(userId[c]),
                           currentQuery[c])
    ELSE DispatchSingle(intent[c].queryType, userId[c], ClientIdOf(userId[c]))

\* bm25Storage after the searchBM25 calls of a dispatch: each sets k to topK
StorageAfterDispatch(storage, searched) ==
    IF variant = "single" \/ ~searched THEN storage
    ELSE BM25StorageAfterSearch(BM25StorageAfterSearch(storage, "documents", DefaultTopK),
                                "transcripts", DefaultTopK)

\* ------------------------------------------------------ parent expansion
\* what the expansion loop pushes for one reranked document
ParentLookup(childDoc) ==
    IF childDoc.parentId # "" /\ childDoc.type = "document" /\ docRetriever
    THEN {childDoc} \cup docVectorStore.docs
    ELSE {childDoc}

\* a loop that pushes a chunk only when a parent lookup was made for it
ExpandParentsLooked(reranked) ==
    {SelectSeq(reranked, LAMBDA childDoc :
         childDoc.parentId # "" /\ childDoc.type = "document" /\ docRetriever)}

ExpandParents(reranked) ==
    {f \in [1..Len(reranked) -> DocumentChunks \cup Range(reranked)] :
        \A i \in 1..Len(reranked) : f[i] \in ParentLookup(reranked[i])}

\* the Document handleMixedQuery builds from the latest transcript file
LatestTranscript(user) ==
    LET userName == IF user \in {"nathan", "1"} THEN "nathan"
                    ELSE IF user \in {"robert", "2"} THEN "robert" ELSE "unknown"
    IN [source |-> "latest_transcript", id |-> "",
        fileName |-> IF userName = "nathan" THEN "nathan_latest_transcript"
                     ELSE IF userName = "robert" THEN "robert_latest_transcript"
                     ELSE "unknown_latest_transcript",
        type |-> "transcript",
        clientId |-> IF userName = "nathan" THEN 1 ELSE IF userName = "robert" THEN 2 ELSE 0,
        parentId |-> ""]

\* ----------------------------------------------------- processQuery texts
Apology == "I apologize, but I encountered an error while processing your query."
NotFound == "I couldn't find relevant information to answer your question."
Sorry == "Sorry, I encountered an error while generating the response."
Pending == [answer |-> "", retrievalResult |-> NoResult, threw |-> FALSE]

\* generateResponse(query, retrievalResult): every string it can return
GenerateResponse(retrievalResult) ==
    IF retrievalResult.content = "" THEN {NotFound} ELSE {"answer with sources", Sorry}

\* a catch block that rethrows
ProcessQueryRethrow ==
    [answer |-> "", retrievalResult |-> NoResult, threw |-> TRUE]

\* the catch block of processQuery
ProcessQueryCatch ==
    [answer |-> Apology, retrievalResult |-> FailedResult, threw |-> FALSE]

\* ---------------------------------------------------------------- actions
\* the loop test with attempts declared at module level: attempts++ counts
\* for every call
LoopTestShared(c) ==
    /\ pc[c] = "while"
    /\ IF LoopGuard(attempts[c], maxAttempts[c])
       THEN /\ attempts' = [d \in Slots |-> attempts[d] + 1]
            /\ Goes(c, "classify")
            /\ intent' = [intent EXCEPT ![c] = NoIntent]
            /\ hybridResults' = [hybridResults EXCEPT ![c] = <<>>]
            /\ rerankedDocuments' = [rerankedDocuments EXCEPT ![c] = <<>>]
            /\ finalChunks' = [finalChunks EXCEPT ![c] = <<>>]
       ELSE /\ Returns(c, MaxAttemptsReachedResult, "loop-exit")
            /\ UNCHANGED <<attempts, intent, hybridResults, rerankedDocuments, finalChunks>>
    /\ UNCHANGED <<storeVars, bm25Storage, currentQuery, pqResult, nClassify, allZero, allRefused, fusionVars, sparseVars, bm25Call, verifyFailed>>

\* the loop test of retrieveContext and, when it passes, attempts++
LoopTest(c) ==
    /\ pc[c] = "while"
    /\ IF LoopGuard(attempts[c], maxAttempts[c])
       THEN /\ attempts' = [attempts EXCEPT ![c] = @ + 1]
            /\ Goes(c, "classify")
            /\ intent' = [intent EXCEPT ![c] = NoIntent]
            /\ hybridResults' = [hybridResults EXCEPT ![c] = <<>>]
            /\ rerankedDocuments' = [rerankedDocuments EXCEPT ![c] = <<>>]
            /\ finalChunks' = [finalChunks EXCEPT ![c] = <<>>]
       ELSE /\ Returns(c, MaxAttemptsReachedResult, "loop-exit")
            /\ UNCHANGED <<attempts, intent, hybridResults, rerankedDocuments, finalChunks>>
    /\ UNCHANGED <<storeVars, bm25Storage, currentQuery, pqResult, nClassify, allZero, allRefused, fusionVars, sparseVars, bm25Call, verifyFailed>>

\* analyzeQueryIntent(currentQuery) and embeddings.embedQuery(currentQuery)
Classify(c) ==
    /\ pc[c] = "classify"
    /\ nClassify' = [nClassify EXCEPT ![c] = @ + 1]
    /\ \E reply \in IntentReplies, embedded \in BOOLEAN :
          IF embedded
          THEN /\ intent' = [intent EXCEPT ![c] = AnalyzeQueryIntent(reply)]
               /\ Goes(c, "search")
               /\ UNCHANGED <<allZero, allRefused>>
          ELSE /\ Caught(c)
               /\ NotZero(c) /\ NotRefused(c)
               /\ UNCHANGED intent
    /\ UNCHANGED <<storeVars, bm25Storage, attempts, currentQuery, hybridResults,
                   rerankedDocuments, finalChunks, pqResult, fusionVars, sparseVars, bm25Call, verifyFailed>>

\* the search strategy chosen by intent.queryType, and searchResults.map
Search(c) ==
    /\ pc[c] = "search"
    /\ \E o \in Dispatch(c) :
          /\ bm25Storage' = StorageAfterDispatch(bm25Storage, o.searched)
          /\ IF o.kind = "results"
             THEN /\ hybridResults' = [hybridResults EXCEPT ![c] =
                        IF variant = "single" THEN o.list ELSE HybridResultsOf(o.list)]
                  /\ Goes(c, IF variant = "single" THEN "fuse" ELSE "check")
                  /\ allZero' = [allZero EXCEPT ![c] = @ /\ Len(o.list) = 0]
                  /\ UNCHANGED allRefused
             ELSE /\ IF o.kind = "throw" THEN Caught(c)
                     ELSE Returns(c, FailedResult, o.kind)
                  /\ IF o.kind = "no-client-context" THEN UNCHANGED allZero ELSE NotZero(c)
                  /\ NotRefused(c)
                  /\ UNCHANGED hybridResults
    /\ UNCHANGED <<storeVars, attempts, currentQuery, intent, rerankedDocuments,
                   finalChunks, pqResult, nClassify, fusionVars, sparseVars, bm25Call, verifyFailed>>

\* if (hybridResults.length === 0): reformulate and continue, or give up
CheckResults(c) ==
    /\ pc[c] = "check"
    /\ variant \in RetryVariants
    /\ IF Len(hybridResults[c]) = 0
       THEN /\ IF MayRetry(attempts[c], maxAttempts[c])
               THEN /\ \E q \in ReformulateQuery(currentQuery[c], attempts[c]) :
                          currentQuery' = [currentQuery EXCEPT ![c] = q]
                    /\ Goes(c, "while")
               ELSE /\ Returns(c, FailedResult, "zero-results")
                    /\ UNCHANGED currentQuery
            /\ NotRefused(c)
       ELSE /\ Goes(c, "fuse")
            /\ UNCHANGED <<currentQuery, allRefused>>
    /\ UNCHANGED <<storeVars, bm25Storage, attempts, intent, hybridResults,
                   rerankedDocuments, finalChunks, pqResult, nClassify, allZero, fusionVars, sparseVars, bm25Call, verifyFailed>>

\* const rerankedDocuments = reciprocalRankFusion(hybridResults); hybridResults
\* is not read again in the attempt and is dropped from the state here
Fuse(c) ==
    /\ pc[c] = "fuse"
    /\ rerankedDocuments' = [rerankedDocuments EXCEPT ![c] =
          ReciprocalRankFusion(hybridResults[c], DefaultK,
                               IF variant = "single" THEN RrfLimitSingle ELSE RrfLimitRetry)]
    /\ hybridResults' = [hybridResults EXCEPT ![c] = <<>>]
    /\ Goes(c, "expand")
    /\ UNCHANGED <<storeVars, bm25Storage, attempts, currentQuery, intent, finalChunks,
                   pqResult, nClassify, allZero, allRefused, fusionVars, sparseVars, bm25Call, verifyFailed>>

\* the parent lookup loop; in the single-pass version handleMixedQuery then
\* appends the latest transcript when it can be loaded; rerankedDocuments is
\* not read again in the attempt and is dropped from the state here
Expand(c) ==
    /\ pc[c] = "expand"
    /\ \E f \in (IF variant = "single" /\ intent[c].queryType = "transcript"
                 THEN {rerankedDocuments[c]}
                 ELSE ExpandParents(rerankedDocuments[c])) :
          \E loaded \in (IF variant = "single" /\ intent[c].queryType # "document"
                            /\ intent[c].queryType # "transcript"
                         THEN BOOLEAN ELSE {FALSE}) :
             finalChunks' = [finalChunks EXCEPT ![c] =
                 IF loaded THEN Append(f, LatestTranscript(userId[c])) ELSE f]
    /\ rerankedDocuments' = [rerankedDocuments EXCEPT ![c] = <<>>]
    /\ Goes(c, IF variant = "single" THEN "final" ELSE "verify")
    /\ UNCHANGED <<storeVars, bm25Storage, attempts, currentQuery, intent, hybridResults,
                   pqResult, nClassify, allZero, allRefused, fusionVars, sparseVars, bm25Call, verifyFailed>>

\* the verification gate and the three branches on its verdict
Verify(c) ==
    /\ pc[c] = "verify"
    /\ \E reply \in VerifierReplies :
          LET isRelevant == IF variant = "optimized"
                            THEN VerifyRelevanceOptimized(finalChunks[c], reply)
                            ELSE VerifyRelevance(finalChunks[c], reply)
          IN /\ IF isRelevant
                THEN /\ Goes(c, "generate")
                     /\ NotRefused(c)
                     /\ UNCHANGED currentQuery
                ELSE /\ IF MayRetry(attempts[c], maxAttempts[c])
                        THEN /\ \E q \in ReformulateQuery(currentQuery[c], attempts[c]) :
                                   currentQuery' = [currentQuery EXCEPT ![c] = q]
                             /\ Goes(c, "while")
                        ELSE /\ Returns(c, NonRelevantResult, "non-relevant")
                             /\ UNCHANGED currentQuery
                     /\ UNCHANGED allRefused
             /\ verifyFailed' = [verifyFailed EXCEPT ![c] = isRelevant /\ reply = "error"]
    /\ UNCHANGED <<storeVars, bm25Storage, attempts, intent, hybridResults,
                   rerankedDocuments, finalChunks, pqResult, nClassify, allZero, fusionVars, sparseVars, bm25Call>>

\* retrieval.ts line 79: if (finalChunks.length === 0) return failed
CheckFinal(c) ==
    /\ pc[c] = "final"
    /\ IF Len(finalChunks[c]) = 0
       THEN Returns(c, FailedResult, "zero-results")
       ELSE Goes(c, "generate")
    /\ UNCHANGED <<storeVars, bm25Storage, attempts, currentQuery, intent, hybridResults,
                   rerankedDocuments, finalChunks, pqResult, nClassify, allZero, allRefused, fusionVars, sparseVars, bm25Call, verifyFailed>>

\* chatModel.invoke(prompt) and the success return
Generate(c) ==
    /\ pc[c] = "generate"
    /\ \E answered \in BOOLEAN :
          IF answered
          THEN Returns(c, SuccessResult("generated answer", finalChunks[c],
                                        intent[c].confidence, attempts[c]), "success")
          ELSE Caught(c)
    /\ verifyFailed' = [verifyFailed EXCEPT ![c] = FALSE]
    /\ UNCHANGED <<storeVars, bm25Storage, attempts, currentQuery, intent, hybridResults,
                   rerankedDocuments, finalChunks, pqResult, nClassify, allZero, allRefused, fusionVars, sparseVars, bm25Call>>

\* processQuery after retrieveContext settled: generateResponse, or the catch
ProcessQueryReturn(c) ==
    /\ pc[c] = "done"
    /\ entry[c] = "processQuery"
    /\ pqResult[c] = Pending
    /\ IF outcome[c] = "thrown"
       THEN pqResult' = [pqResult EXCEPT ![c] = ProcessQueryCatch]
       ELSE \E answer \in GenerateResponse(result[c]) :
               pqResult' = [pqResult EXCEPT ![c] =
                   [answer |-> answer, retrievalResult |-> result[c], threw |-> FALSE]]
    /\ UNCHANGED <<storeVars, bm25Storage, pc, attempts, currentQuery, intent,
                   hybridResults, rerankedDocuments, finalChunks, outcome, exit, result,
                   nClassify, allZero, allRefused, fusionVars, sparseVars, bm25Call, verifyFailed>>

\* ---------------------------------------- repeated fusion of one array
FusionDocs == {D1, D2, SparseMetadata(D1), SparseMetadata(T1)}
FusionScores == {0, 500, 1000}
FusionKs == {1, DefaultK}

Candidate(doc, dense, sparse) ==
    [document |-> doc, denseScore |-> dense, sparseScore |-> sparse,
     combinedScore |-> dense * DenseWeight + sparse * SparseWeight]

\* candidate arrays of at most MaxCands entries over distinct documents; a
\* document that carries the metadata of the sparse index is a match of the
\* sparse index alone (the ids of the two indexes never coincide): dense score 0
CandidateLists ==
    {[i \in 1..Len(p[1]) |-> Candidate(p[1][i], p[2][i][1], p[2][i][2])] :
        p \in {q \in Arrangements(FusionDocs, MaxCands)
                     \X UNION {[1..m -> FusionScores \X FusionScores] : m \in 0..MaxCands} :
                 /\ Len(q[1]) = Len(q[2])
                 /\ \A i \in 1..Len(q[1]) : DocIdOf(q[1][i]) = "" => q[2][i][1] = 0}}

\* one more reciprocalRankFusion(results, k) call on the same array
FuseAgain ==
    /\ Len(fused) < 2
    /\ fused' = Append(fused, ReciprocalRankFusion(fusionInput, fusionK, RrfLimitSingle))
    /\ fusionInput' = ResultsAfterFusion(fusionInput)
    /\ UNCHANGED <<storeVars, bm25Storage, pc, attempts, currentQuery, intent,
                   hybridResults, rerankedDocuments, finalChunks, outcome, exit, result,
                   pqResult, nClassify, allZero, allRefused, fusionK, sparseVars, bm25Call, verifyFailed>>

\* ------------------------------------------------ direct lexical search
NoBM25Call == [indexName |-> "none", topK |-> 0, restricted |-> FALSE,
               preFilteredDocs |-> {}, results |-> <<>>]

TopKs == {1, 2, DefaultTopK}

\* searchBM25(query, indexName, topK, preFilteredDocs), preFilteredDocs given
\* (restricted) or left undefined
SearchBM25Call ==
    /\ \E indexName \in {"documents", "transcripts"}, topK \in TopKs, restricted \in BOOLEAN,
          preFilteredDocs \in SUBSET (DocumentChunks \cup TranscriptChunks) :
          /\ ~restricted => preFilteredDocs = {}
          /\ \E results \in SearchBM25(indexName, topK, preFilteredDocs) :
                bm25Call' = [indexName |-> indexName, topK |-> topK,
                             restricted |-> restricted,
                             preFilteredDocs |-> preFilteredDocs, results |-> results]
          /\ bm25Storage' = BM25StorageAfterSearch(bm25Storage, indexName, topK)
    /\ UNCHANGED <<storeVars, callVars, fusionVars, sparseVars>>

\* the words of the texts, with token.length for the length filter
WordLength == [claims |-> 6, policy |-> 6, the |-> 3, ai |-> 2]
Stopwords == {"the"}

\* stemmer(token)
Stemmer(token) == IF token = "claims" THEN "claim"
                  ELSE IF token = "policy" THEN "polici" ELSE token

\* preprocessText(text); a text is the sequence of its lower-case words
PreprocessText(text) ==
    LET tokens == SelectSeq(text, LAMBDA token : WordLength[token] > 2)
        withoutStopwords == SelectSeq(tokens, LAMBDA token : token \notin Stopwords)
    IN [i \in 1..Len(withoutStopwords) |-> Stemmer(withoutStopwords[i])]

RECURSIVE Flatten(_)
Flatten(ss) == IF ss = <<>> THEN <<>> ELSE Head(ss) \o Flatten(Tail(ss))

\* Math.max(2, Math.floor(documents.length * 0.01))
MinFreq(n) == IF n \div 100 > 2 THEN n \div 100 ELSE 2

\* Math.floor(documents.length * 0.8) with no upper limit
MaxFreqUnlimited(n) == n

\* Math.floor(documents.length * 0.8)
MaxFreq(n) == (n * 8) \div 10

\* termCounts.get(term): the number of documents whose token set has the term
TermCount(documents, term) ==
    Cardinality({i \in DOMAIN documents : term \in Range(PreprocessText(documents[i]))})

\* the terms buildVocabulary accepts, in termCounts order (first occurrence)
AcceptedTerms(documents) ==
    With(Distinct(Flatten([i \in DOMAIN documents |-> PreprocessText(documents[i])])),
         LAMBDA terms :
        SelectSeq(terms, LAMBDA term :
            /\ TermCount(documents, term) >= MinFreq(Len(documents))
            /\ TermCount(documents, term) <= MaxFreq(Len(documents))))

\* the generator's fields [vocabulary, documentFrequencies, totalDocuments,
\* vocabularySize] after buildVocabulary(documents): both maps are written
\* with Map.set and never cleared, vocabIndex restarts at 0
BuildVocabulary(gen, documents) ==
    With(AcceptedTerms(documents), LAMBDA accepted :
        LET position(term) == CHOOSE i \in DOMAIN accepted : accepted[i] = term
            terms == DOMAIN gen.vocabulary \cup Range(accepted)
        IN [vocabulary |-> [term \in terms |->
                               IF term \in Range(accepted) THEN position(term) - 1
                               ELSE gen.vocabulary[term]],
            documentFrequencies |-> [term \in terms |->
                               IF term \in Range(accepted) THEN TermCount(documents, term)
                               ELSE gen.documentFrequencies[term]],
            totalDocuments |-> Len(documents),
            vocabularySize |-> Cardinality(terms)])

\* new SparseEmbeddingGenerator()
FreshGenerator ==
    [vocabulary |-> <<>>, documentFrequencies |-> <<>>,
     totalDocuments |-> 0, vocabularySize |-> 0]

\* Math.log(num / den) for num >= den > 0, in units of 1/10000: halving down
\* to a ratio below 2 (ln 2 = 0.6931), then 2 * artanh((x - 1) / (x + 1))
RECURSIVE LogRatio(_, _)
LogRatio(num, den) ==
    IF num >= 2 * den THEN 6931 + LogRatio(num, 2 * den)
    ELSE LET y == ((num - den) * 10000) \div (num + den)
             y3 == (((y * y) \div 10000) * y) \div 10000
             y5 == (((y3 * y) \div 10000) * y) \div 10000
             y7 == (((y5 * y) \div 10000) * y) \div 10000
         IN 2 * (y + y3 \div 3 + y5 \div 5 + y7 \div 7)

\* tfScore * idfScore in units of 1/10^8; Math.log of a ratio that is not
\* above 1 is 0, negative or -Infinity, and so is the product: written 0
TfIdf(tf, totalDocuments0, df) ==
    IF totalDocuments0 <= df THEN 0
    ELSE LogRatio(1 + tf, 1) * LogRatio(totalDocuments0, df)

RECURSIVE SqrtFrom(_, _)
SqrtFrom(x, r) == LET next == (r + x \div r) \div 2
                  IN IF next >= r THEN r ELSE SqrtFrom(x, next)

\* Math.sqrt on integers, rounded down
Sqrt(x) == IF x = 0 THEN 0 ELSE SqrtFrom(x, x)

\* generateSparseEmbedding(text) on generator gen: indices and values, the
\* values in thousandths
GenerateSparseEmbedding(gen, text) ==
    With(PreprocessText(text), LAMBDA tokens :
        LET termFreqs == Distinct(tokens)
            tf(term) == Cardinality({i \in DOMAIN tokens : tokens[i] = term})
            tfidfScore(term) == TfIdf(tf(term), gen.totalDocuments,
                                      gen.documentFrequencies[term])
            kept == SelectSeq(termFreqs, LAMBDA term :
                        /\ term \in DOMAIN gen.vocabulary
                        /\ tfidfScore(term) > 1000000)
            values == [i \in 1..Len(kept) |-> tfidfScore(kept[i]) \div 100000]
            magnitude == Sqrt(SumSeq([i \in 1..Len(kept) |-> values[i] * values[i]]))
        IN [indices |-> [i \in 1..Len(kept) |-> gen.vocabulary[kept[i]]],
            values |-> IF magnitude > 0
                       THEN [i \in 1..Len(kept) |-> (values[i] * 1000) \div magnitude]
                       ELSE values])

\* the generator's fields after generateSparseEmbedding with a call counter
GeneratorCountingCalls(gen) == [gen EXCEPT !.totalDocuments = @ + 1]

\* the generator's fields after generateSparseEmbedding: nothing is written
GeneratorAfterEmbedding(gen) == gen

\* sparseIndex.query is issued without looking at the sparse vector
SparseQueryAlways(sparseVector) == TRUE

\* if (sparseVector.indices.length > 0 && sparseVector.values.length > 0)
SparseQueryIssued(sparseVector) ==
    Len(sparseVector.indices) > 0 /\ Len(sparseVector.values) > 0

\* performPineconeHybridSearch(query, type, userId, topK) for a query whose
\* sparse embedding is sparseVector: [denseMatches, sparseQueried, results];
\* any exception yields []
PineconeSearchOf(sparseVector, type, client, topK) ==
    {[denseMatches |-> <<>>, sparseQueried |-> FALSE, results |-> <<>>]} \cup
    IF ~VectorStoreOf(type).ready THEN {}
    ELSE {[denseMatches |-> d, sparseQueried |-> SparseQueryIssued(sparseVector),
           results |-> Take(CombineSearchResults(d, s), topK)] :
            <<d, s>> \in IndexQuery(PineconePool(type, client), DenseMatch)
                         \X (IF SparseQueryIssued(sparseVector)
                             THEN IndexQuery(PineconePool(type, client), SparseMatch)
                             ELSE {<<>>})}

\* the corpora handed to buildVocabulary
CorpusTexts == {<<>>, <<"claims">>, <<"policy", "claims">>, <<"the", "policy">>}

\* 100 texts: "claims" is in the first 60, "policy" in the first 99
HundredTexts ==
    [i \in 1..100 |-> IF i <= 60 THEN <<"policy", "claims">>
                      ELSE IF i <= 99 THEN <<"policy">> ELSE <<"the">>]

Corpora == UNION {[1..n -> CorpusTexts] : n \in 0..MaxTexts} \cup {HundredTexts}

\* the texts handed to generateSparseEmbedding
QueryTexts == {<<"claims", "claims", "policy">>, <<"policy">>, <<"the", "ai">>}

NoSearch == [query |-> <<>>, sparseVector |-> [indices |-> <<>>, values |-> <<>>],
             denseMatches |-> <<>>, sparseQueried |-> FALSE, results |-> <<>>]

\* documentSparseGenerator.buildVocabulary(documents); sparseCalls and
\* pineconeCall record the calls since the last build, and a build is taken
\* before any is recorded
BuildVocabularyCall ==
    /\ sparseCalls = <<>>
    /\ pineconeCall = NoSearch
    /\ \E documents \in Corpora :
          /\ generator' = BuildVocabulary(generator, documents)
          /\ lastCorpus' = documents
    /\ builds' = IF builds < 2 THEN builds + 1 ELSE builds
    /\ sparseCalls' = <<>>
    /\ pineconeCall' = NoSearch
    /\ UNCHANGED <<storeVars, bm25Storage, callVars, fusionVars, bm25Call>>

\* documentSparseGenerator.generateSparseEmbedding(text)
GenerateSparseEmbeddingCall ==
    /\ Len(sparseCalls) < 2
    /\ pineconeCall = NoSearch
    /\ \E text \in QueryTexts :
          sparseCalls' = Append(sparseCalls, [text |-> text,
                                        sparse |-> GenerateSparseEmbedding(generator, text)])
    /\ generator' = GeneratorAfterEmbedding(generator)
    /\ UNCHANGED <<storeVars, bm25Storage, callVars, fusionVars, bm25Call, lastCorpus, builds, pineconeCall>>

\* performPineconeHybridSearch(query, 'documents')
PineconeSearchCall ==
    /\ sparseCalls = <<>>
    /\ pineconeCall = NoSearch
    /\ \E query \in QueryTexts :
          LET sparseVector == GenerateSparseEmbedding(generator, query)
          IN \E found \in PineconeSearchOf(sparseVector, "documents", 0, DefaultTopK) :
                pineconeCall' = [query |-> query, sparseVector |-> sparseVector,
                             denseMatches |-> found.denseMatches,
                             sparseQueried |-> found.sparseQueried,
                             results |-> found.results]
    /\ generator' = GeneratorAfterEmbedding(generator)
    /\ UNCHANGED <<storeVars, bm25Storage, callVars, fusionVars, bm25Call, lastCorpus, builds, sparseCalls>>

\* ------------------------------------------------------------ deployments
Corpus(ready, docs) == [ready |-> ready, docs |-> docs]
Lexical(index, docs) == [index |-> index, documents |-> docs, k |-> DefaultTopK]

\* after initializeRAGSystem and both ingestions: createBM25Index keeps the
\* chunks of the file ingested last (robert's transcript)
Ingested ==
    [docs |-> Corpus(TRUE, DocumentChunks), transcripts |-> Corpus(TRUE, TranscriptChunks),
     bm25 |-> [documents |-> Lexical(TRUE, DocumentChunks),
               transcripts |-> Lexical(TRUE, {T2})],
     retriever |-> TRUE]

\* after initializeRAGSystem, nothing ingested
EmptyCorpus ==
    [docs |-> Corpus(TRUE, {}), transcripts |-> Corpus(TRUE, {}),
     bm25 |-> [documents |-> Lexical(FALSE, {}), transcripts |-> Lexical(FALSE, {})],
     retriever |-> TRUE]

\* before initializeRAGSystem
NotInitialized ==
    [docs |-> Corpus(FALSE, {}), transcripts |-> Corpus(FALSE, {}),
     bm25 |-> [documents |-> Lexical(FALSE, {}), transcripts |-> Lexical(FALSE, {})],
     retriever |-> FALSE]

\* one policy chunk ingested, no transcript
OneDocument ==
    [docs |-> Corpus(TRUE, {D1}), transcripts |-> Corpus(TRUE, {}),
     bm25 |-> [documents |-> Lexical(TRUE, {D1}), transcripts |-> Lexical(FALSE, {})],
     retriever |-> TRUE]

UserIds == {"", "nathan", "alice"}

Deployed(d) ==
    /\ docVectorStore = d.docs
    /\ transcriptVectorStore = d.transcripts
    /\ bm25Storage = d.bm25
    /\ docRetriever = d.retriever
    /\ ingested = {doc.fileName : doc \in d.docs.docs \cup d.transcripts.docs}

\* the state of the calls in `active` at their first step
Called(active) ==
    /\ calls = active
    /\ entry \in [Slots -> {"none", "retrieveContext", "processQuery"}]
    /\ \A c \in Slots : (entry[c] = "none") <=> (c \notin active)
    /\ userId \in [Slots -> UserIds]
    /\ maxAttempts \in [Slots -> 0..MaxAttemptsBound]
    /\ \A c \in Slots :
          /\ c \notin active => userId[c] = "" /\ maxAttempts[c] = 0
          /\ variant = "single" /\ c \in active => maxAttempts[c] = 1
          /\ variant # "single" /\ entry[c] = "processQuery"
                => maxAttempts[c] = DefaultMaxAttempts
    /\ pc = [c \in Slots |-> IF c \notin active THEN "idle"
                             ELSE IF variant = "single" THEN "classify" ELSE "while"]
    /\ attempts = [c \in Slots |-> 0]
    /\ currentQuery \in [Slots -> {Query(0, kw) : kw \in BOOLEAN}]
    /\ \A c \in Slots : c \notin active \/ variant # "optimized" => ~currentQuery[c].keyword
    /\ intent = [c \in Slots |-> NoIntent]
    /\ hybridResults = [c \in Slots |-> <<>>]
    /\ rerankedDocuments = [c \in Slots |-> <<>>]
    /\ finalChunks = [c \in Slots |-> <<>>]
    /\ outcome = [c \in Slots |-> "running"]
    /\ exit = [c \in Slots |-> "none"]
    /\ result = [c \in Slots |-> NoResult]
    /\ pqResult = [c \in Slots |-> Pending]
    /\ nClassify = [c \in Slots |-> 0]
    /\ allZero = [c \in Slots |-> TRUE]
    /\ allRefused = [c \in Slots |-> TRUE]
    /\ verifyFailed = [c \in Slots |-> FALSE]

NoFusion ==
    /\ fusionInput = <<>>
    /\ fusionK = DefaultK
    /\ fused = <<>>

NoSparse ==
    /\ bm25Call = NoBM25Call
    /\ generator = FreshGenerator
    /\ lastCorpus = <<>>
    /\ builds = 0
    /\ sparseCalls = <<>>
    /\ pineconeCall = NoSearch

\* --------------------------------------------------------- specifications
\* the steps of one retrieveContext call of the retry-loop versions
RetryStep(c) ==
    \/ LoopTest(c)
    \/ Classify(c)
    \/ Search(c)
    \/ CheckResults(c)
    \/ Fuse(c)
    \/ Expand(c)
    \/ Verify(c)
    \/ Generate(c)

Step(c) ==
    \/ RetryStep(c)
    \/ CheckFinal(c)
    \/ ProcessQueryReturn(c)

\* one call of retrieveContext or processQuery
Init ==
    /\ variant \in Variants
    /\ \E d \in {Ingested, EmptyCorpus, NotInitialized} : Deployed(d)
    /\ Called({1})
    /\ NoFusion
    /\ NoSparse

\* a slot outside calls stays "idle": none of its steps is enabled
Next == \E c \in Slots : Step(c)

Spec == Init /\ [][Next]_vars

\* one call over a corpus of one policy chunk, or before initialization
InitFair ==
    /\ variant \in Variants
    /\ \E d \in {OneDocument, NotInitialized} : Deployed(d)
    /\ Called({1})
    /\ NoFusion
    /\ NoSparse

\* the event loop runs a call until it returns or throws
FairSpec == InitFair /\ [][Next]_vars /\ \A c \in Slots : WF_vars(Step(c))

\* two calls of retrieveContext in one process
InitPair ==
    /\ variant \in RetryVariants
    /\ Deployed(OneDocument)
    /\ Called({1, 2})
    /\ \A c \in Slots : /\ entry[c] = "retrieveContext"
                         /\ userId[c] = ""
                         /\ maxAttempts[c] = PairAttempts
                         /\ ~currentQuery[c].keyword
    /\ NoFusion
    /\ NoSparse

NextPair == \E c \in Slots : RetryStep(c)

SpecPair == InitPair /\ [][NextPair]_vars

\* reciprocalRankFusion called twice on one candidate array
InitFusion ==
    /\ variant = "single"
    /\ Deployed(NotInitialized)
    /\ Called({})
    /\ fusionInput \in CandidateLists
    /\ fusionK \in FusionKs
    /\ fused = <<>>
    /\ NoSparse

NextFusion == FuseAgain

SpecFusion == InitFusion /\ [][NextFusion]_vars

\* buildVocabulary, generateSparseEmbedding and performPineconeHybridSearch
\* called in any order on the document generator, both corpora ingested
InitSparse ==
    /\ variant = "single"
    /\ Deployed(Ingested)
    /\ Called({})
    /\ NoFusion
    /\ NoSparse

NextSparse ==
    \/ BuildVocabularyCall
    \/ GenerateSparseEmbeddingCall
    \/ PineconeSearchCall

SpecSparse == InitSparse /\ [][NextSparse]_vars

\* searchBM25 called directly, in any deployment
\* -------------------------------------------------------------- ingestion
\* the PDF files of the two corpora and the chunks created from each
Files == {doc.fileName : doc \in DocumentChunks \cup TranscriptChunks}
ChunksOfFile(file) == {doc \in DocumentChunks \cup TranscriptChunks : doc.fileName = file}
IndexNameOf(file) == IF ChunksOfFile(file) \subseteq DocumentChunks
                     THEN "documents" ELSE "transcripts"

\* createBM25Index(documents, indexName): 'index' and 'documents' are set anew
CreateBM25Index(storage, documents, indexName) ==
    [storage EXCEPT ![indexName] = Lexical(TRUE, documents)]

\* one iteration of the storing loop of ingestDocuments / ingestTranscripts:
\* addDocuments on the dense store, storeSparseEmbeddings, createBM25Index;
\* an exception of either store ends the iteration in the catch block
IngestFile ==
    /\ docVectorStore.ready /\ transcriptVectorStore.ready /\ docRetriever
    /\ \E file \in Files, step \in {"stored", "dense-failed", "sparse-failed"} :
          LET childDocuments == ChunksOfFile(file)
              indexName == IndexNameOf(file)
          IN /\ IF step # "dense-failed" /\ indexName = "documents"
                THEN docVectorStore' = [docVectorStore EXCEPT !.docs = @ \cup childDocuments]
                ELSE UNCHANGED docVectorStore
             /\ IF step # "dense-failed" /\ indexName = "transcripts"
                THEN transcriptVectorStore' =
                        [transcriptVectorStore EXCEPT !.docs = @ \cup childDocuments]
                ELSE UNCHANGED transcriptVectorStore
             /\ IF step = "stored"
                THEN /\ bm25Storage' = CreateBM25Index(bm25Storage, childDocuments, indexName)
                     /\ ingested' = ingested \cup {file}
                ELSE UNCHANGED <<bm25Storage, ingested>>
    /\ UNCHANGED <<variant, docRetriever, calls, entry, userId, maxAttempts,
                   callVars, fusionVars, sparseVars, bm25Call>>

\* ingestion after initializeRAGSystem, and the first lexical search
InitIngest ==
    /\ variant = "single"
    /\ Deployed(EmptyCorpus)
    /\ Called({})
    /\ NoFusion
    /\ NoSparse

NextIngest ==
    \/ IngestFile
    \/ bm25Call = NoBM25Call /\ SearchBM25Call

SpecIngest == InitIngest /\ [][NextIngest]_vars

InitBM25 ==
    /\ variant = "single"
    /\ \E d \in {Ingested, EmptyCorpus, NotInitialized, OneDocument} : Deployed(d)
    /\ Called({})
    /\ NoFusion
    /\ NoSparse

NextBM25 == SearchBM25Call

SpecBM25 == InitBM25 /\ [][NextBM25]_vars

\* ------------------------------------------------------------- properties
Done(c) == pc[c] = "done"
Returned(c) == Done(c) /\ outcome[c] = "returned"
Retrying == variant \in RetryVariants

\* the chunks a call holds as search candidates or as final context
ChunksHeld(c) ==
    {hybridResults[c][i].document : i \in 1..Len(hybridResults[c])}
        \cup Range(rerankedDocuments[c]) \cup Range(finalChunks[c])

\* C1: a transcript search scoped to one client yields only chunks whose
\* clientId is that client's, whatever the searches fall back to: every
\* transcript chunk a call holds belongs to the client the caller named.
C1_ClientIsolation ==
    \A c \in calls : \A ch \in ChunksHeld(c) :
        ch.type = "transcript" => ch.clientId = ClientIdOf(userId[c])

\* C2: when every attempt of a retry-loop call finds zero search results, the
\* call runs exactly maxAttempts attempts, classifying the query once per
\* attempt, and returns a result with strategy 'failed'.
C2_ZeroResultsRetryBound ==
    \A c \in calls :
        Retrying /\ Done(c) /\ attempts[c] >= 1 /\ allZero[c]
            => /\ outcome[c] = "returned"
               /\ attempts[c] = maxAttempts[c]
               /\ nClassify[c] = maxAttempts[c]
               /\ result[c].searchStrategy = "failed"

\* C3: when the verification gate refuses the chunks on every attempt, the
\* call returns no content: it ends after exactly maxAttempts attempts with
\* empty content, no sources and strategy 'max-attempts-non-relevant'.
C3_VerificationGated ==
    \A c \in calls :
        Retrying /\ Done(c) /\ attempts[c] >= 1 /\ allRefused[c]
            => /\ outcome[c] = "returned"
               /\ attempts[c] = maxAttempts[c]
               /\ result[c].content = ""
               /\ result[c].sources = <<>>
               /\ result[c].searchStrategy = "max-attempts-non-relevant"

C3_Witness ==
    \E c \in calls :
        /\ Retrying /\ Done(c) /\ allRefused[c]
        /\ attempts[c] = MaxAttemptsBound
        /\ exit[c] = "non-relevant"

\* C4: a call never starts more than maxAttempts attempts, and it always
\* ends (returns or throws), whatever the collaborators answer.
C4_MaxAttemptsEnforced ==
    /\ [](\A c \in calls : attempts[c] <= maxAttempts[c])
    /\ <>(\A c \in calls : Done(c))

C4_Witness ==
    \E c \in calls :
        /\ Retrying /\ Done(c)
        /\ maxAttempts[c] = MaxAttemptsBound
        /\ attempts[c] = maxAttempts[c]
        /\ currentQuery[c].rev = maxAttempts[c] - 1

\* C5: when the query is classified 'transcript' and the caller gave no
\* client scope, the call returns at once a result with strategy 'failed'
\* (empty content, confidence 0), on whichever attempt it happens, without
\* searching, reformulating or starting another attempt.
C5_MissingScopeFails ==
    \A c \in calls :
        intent[c].queryType = "transcript" /\ userId[c] = "" /\ pc[c] # "search"
            => /\ Returned(c)
               /\ result[c].searchStrategy = "failed"
               /\ result[c].content = ""
               /\ result[c].confidence = 0
               /\ hybridResults[c] = <<>>

\* C6: processQuery never throws: it always yields an answer and a retrieval
\* result, and when retrieveContext threw the retrieval result is the failed
\* one (empty content, no sources, confidence 0) with the apology as answer.
C6_ProcessQueryNeverThrows ==
    \A c \in calls :
        entry[c] = "processQuery" /\ pqResult[c] # Pending
            => /\ ~pqResult[c].threw
               /\ pqResult[c].answer # ""
               /\ pqResult[c].retrievalResult.searchStrategy # "none"
               /\ outcome[c] = "thrown"
                    => /\ pqResult[c].answer = Apology
                       /\ pqResult[c].retrievalResult.content = ""
                       /\ pqResult[c].retrievalResult.sources = <<>>
                       /\ pqResult[c].retrievalResult.confidence = 0
                       /\ pqResult[c].retrievalResult.searchStrategy = "failed"
               /\ outcome[c] = "returned" => pqResult[c].retrievalResult = result[c]

C6_Witness ==
    \E c \in calls :
        /\ entry[c] = "processQuery" /\ pqResult[c] # Pending
        /\ outcome[c] = "thrown"
        /\ attempts[c] = maxAttempts[c]

\* C7: a successful result carries the confidence of the classification of
\* the attempt that succeeded, and one source per distinct fileName of the
\* final chunks, at least one.
C7_SuccessResult ==
    \A c \in calls :
        exit[c] = "success"
            => /\ result[c].confidence = intent[c].confidence
               /\ Len(result[c].sources) >= 1
               /\ {result[c].sources[i].id : i \in 1..Len(result[c].sources)}
                     = {finalChunks[c][i].fileName : i \in 1..Len(finalChunks[c])}
               /\ \A i, j \in 1..Len(result[c].sources) :
                     result[c].sources[i].id = result[c].sources[j].id => i = j

C7_Witness ==
    \E c \in calls :
        /\ exit[c] = "success"
        /\ attempts[c] >= 2
        /\ Len(finalChunks[c]) >= 2
        /\ Len(result[c].sources) < Len(finalChunks[c])

\* C8 as stated: the strategy tag of a successful result records the attempt
\* that succeeded, so two calls that succeed on different attempts carry
\* different tags.
C8_TagRecordsAttempt ==
    \A c, d \in calls :
        exit[c] = "success" /\ exit[d] = "success" /\ attempts[c] # attempts[d]
            => result[c].searchStrategy # result[d].searchStrategy

\* C8 amended: the strategy tag of a successful result is 'hybrid' on
\* whichever attempt the call succeeded.
C8_SuccessTagIsHybrid ==
    \A c \in calls : exit[c] = "success" => result[c].searchStrategy = "hybrid"

C8_Witness ==
    \E c, d \in calls :
        exit[c] = "success" /\ exit[d] = "success" /\ attempts[c] < attempts[d]

\* C9: every result returned without success has empty content, confidence 0
\* and no sources; its strategy is 'failed' after an empty search or a
\* missing client scope, 'max-attempts-non-relevant' after the gate's refusal
\* on the last attempt, 'max-attempts-reached' after the loop ran out.
C9_FailureResults ==
    \A c \in calls :
        Returned(c) /\ result[c].searchStrategy # "hybrid"
            => /\ exit[c] # "success"
               /\ result[c].content = ""
               /\ result[c].confidence = 0
               /\ result[c].sources = <<>>
               /\ exit[c] \in {"zero-results", "missing-scope", "no-client-context"}
                    => result[c].searchStrategy = "failed"
               /\ exit[c] = "non-relevant"
                    => /\ result[c].searchStrategy = "max-attempts-non-relevant"
                       /\ attempts[c] = maxAttempts[c]
               /\ exit[c] = "loop-exit" => result[c].searchStrategy = "max-attempts-reached"

C9_Witness ==
    \E c \in calls :
        /\ Returned(c) /\ exit[c] = "non-relevant"
        /\ attempts[c] >= 2
        /\ ~allRefused[c]

\* C10: reciprocalRankFusion is deterministic: called twice on the same
\* candidate array with the same k it returns the same documents in the
\* same order.
C10_FusionDeterministic ==
    Len(fused) = 2 => fused[1] = fused[2]

C10_Witness ==
    /\ Len(fused) = 2
    /\ Len(fused[1]) >= 2
    /\ \E i, j \in 1..Len(fusionInput) :
          /\ i < j
          /\ fusionInput[i].denseScore = fusionInput[j].denseScore
          /\ fusionInput[i].sparseScore # fusionInput[j].sparseScore

\* the candidate of fusionInput ranked first by dense score / by sparse score
DenseFirst == SortDescBy(fusionInput, [i \in 1..Len(fusionInput) |-> fusionInput[i].denseScore])[1]
SparseFirst == SortDescBy(fusionInput, [i \in 1..Len(fusionInput) |-> fusionInput[i].sparseScore])[1]

\* C11: for any k > 0, a candidate that is first in both the dense and the
\* sparse ranking is the first element of the fused output, ahead of every
\* candidate that leads at most one ranking.
C11_DualRankedFirst ==
    Len(fused) >= 1 /\ Len(fusionInput) >= 1 /\ DenseFirst = SparseFirst
        => /\ Len(fused[1]) >= 1
           /\ fused[1][1] = DenseFirst.document

\* every term a text can contribute
Terms == {Stemmer(word) : word \in DOMAIN WordLength}

\* the number of texts of documents that contain term
Presence(documents, term) == TermCount(documents, term)

\* C12: after any sequence of buildVocabulary calls the vocabulary holds
\* exactly the terms retained from the last corpus, and no two terms share a
\* vocabulary index.
C12_VocabularyReplaced ==
    builds >= 1 =>
        /\ DOMAIN generator.vocabulary = Range(AcceptedTerms(lastCorpus))
        /\ \A a, b \in DOMAIN generator.vocabulary :
              a # b => generator.vocabulary[a] # generator.vocabulary[b]

\* C13: after buildVocabulary on a fresh generator over N texts a term is in
\* the vocabulary iff the number of texts containing it lies in
\* [max(2, floor(0.01 * N)), floor(0.8 * N)]; for N = 100 a term present in 60
\* texts is retained and a term present in 99 texts is excluded.
C13_VocabularyRetention ==
    builds = 1 =>
        LET N == Len(lastCorpus)
            low == IF N \div 100 > 2 THEN N \div 100 ELSE 2
            high == (8 * N) \div 10
        IN /\ \A term \in Terms :
                 term \in DOMAIN generator.vocabulary
                    <=> (low <= Presence(lastCorpus, term) /\ Presence(lastCorpus, term) <= high)
           /\ lastCorpus = HundredTexts
                 => /\ Presence(lastCorpus, "claim") = 60
                    /\ "claim" \in DOMAIN generator.vocabulary
                    /\ Presence(lastCorpus, "polici") = 99
                    /\ "polici" \notin DOMAIN generator.vocabulary

C13_Witness ==
    /\ builds = 1
    /\ lastCorpus = HundredTexts
    /\ DOMAIN generator.vocabulary = {"claim"}

\* C14: generateSparseEmbedding called twice with the same text on the same
\* vocabulary returns identical indices and values, and a call leaves the
\* vocabulary, the document frequencies and the document count unchanged.
C14_EmbeddingIdempotent ==
    /\ [](\A i, j \in DOMAIN sparseCalls :
            sparseCalls[i].text = sparseCalls[j].text
                => sparseCalls[i].sparse = sparseCalls[j].sparse)
    /\ [][Len(sparseCalls') > Len(sparseCalls)
            => /\ generator'.vocabulary = generator.vocabulary
               /\ generator'.documentFrequencies = generator.documentFrequencies
               /\ generator'.totalDocuments = generator.totalDocuments]_vars

C14_Witness ==
    /\ Len(sparseCalls) = 2
    /\ sparseCalls[1].text = sparseCalls[2].text
    /\ Len(sparseCalls[2].sparse.indices) = 2

\* no term of the text is in the vocabulary
NoVocabularyTerm(text) ==
    Range(PreprocessText(text)) \cap DOMAIN generator.vocabulary = {}

\* C15: for a query with no term in the vocabulary generateSparseEmbedding
\* returns empty indices and values, and performPineconeHybridSearch then
\* issues no sparse query and returns the candidates of the dense search
\* alone, each with sparse score 0.
C15_NoSparseSignal ==
    /\ \A i \in DOMAIN sparseCalls :
          NoVocabularyTerm(sparseCalls[i].text)
              => sparseCalls[i].sparse = [indices |-> <<>>, values |-> <<>>]
    /\ pineconeCall # NoSearch /\ NoVocabularyTerm(pineconeCall.query)
          => /\ pineconeCall.sparseVector = [indices |-> <<>>, values |-> <<>>]
             /\ ~pineconeCall.sparseQueried
             /\ {pineconeCall.results[i].document : i \in DOMAIN pineconeCall.results}
                    = {pineconeCall.denseMatches[i].metadata : i \in DOMAIN pineconeCall.denseMatches}
             /\ Len(pineconeCall.results) = Len(pineconeCall.denseMatches)
             /\ \A i \in DOMAIN pineconeCall.results : pineconeCall.results[i].sparseScore = 0

C15_Witness ==
    /\ DOMAIN generator.vocabulary = {"claim"}
    /\ pineconeCall.query = <<"policy">>
    /\ NoVocabularyTerm(pineconeCall.query)
    /\ Len(pineconeCall.results) = 2

\* C16: whatever the classification model does, analyzeQueryIntent returns a
\* value of the expected shape (queryType one of document, transcript, mixed;
\* confidence in [0,1]), the fallback {mixed, 0.5} on a failed call or a reply
\* of another shape; it never throws.
C16_ClassifierFallback ==
    \A c \in Slots :
        intent[c] # NoIntent
            => /\ intent[c].queryType \in {"document", "transcript", "mixed"}
               /\ intent[c].confidence \in 0..10

C18_RestrictedSearch ==
    bm25Call.restricted =>
        /\ \A i \in DOMAIN bm25Call.results :
              bm25Call.results[i].document \in bm25Call.preFilteredDocs
        /\ Len(bm25Call.results) <= bm25Call.topK
        /\ \A i \in 1..(Len(bm25Call.results) - 1) :
              bm25Call.results[i].score >= bm25Call.results[i + 1].score

\* C19: in the retry-loop versions an exception raised in an attempt numbered
\* below maxAttempts is caught and the next attempt starts; an exception
\* raised in attempt number maxAttempts propagates out of retrieveContext.
\* So a call throws only in attempt maxAttempts, and goes back to the loop
\* test, still running, only from an attempt below maxAttempts.
C19_ExceptionPolicy ==
    [][\A c \in Slots :
          Retrying =>
              /\ outcome'[c] = "thrown" /\ outcome[c] # "thrown"
                    => attempts[c] = maxAttempts[c]
              /\ pc'[c] = "while" /\ pc[c] # "while"
                    => /\ attempts[c] < maxAttempts[c]
                       /\ outcome'[c] = "running"
                       /\ attempts'[c] = attempts[c]
              /\ pc[c] \in {"classify", "search", "generate"} /\ attempts[c] = maxAttempts[c]
                    => pc'[c] # "while"]_vars

\* an exception raised by the search of attempt 1 was caught: the attempt
\* was classified, ended neither in an empty search nor in a gate refusal,
\* holds no chunk, and the loop goes on
C19_Witness ==
    \E c \in calls :
        /\ Retrying
        /\ pc[c] = "while"
        /\ attempts[c] = 1
        /\ maxAttempts[c] > 1
        /\ intent[c] # NoIntent
        /\ finalChunks[c] = <<>>
        /\ ~allZero[c]
        /\ ~allRefused[c]

\* C20: in the retry-loop versions an attempt below maxAttempts whose
\* searches produce no candidate reformulates the query and starts another
\* attempt, for every query type and search strategy: a call returns the
\* 'failed' result for zero results only in attempt number maxAttempts.
C20_ZeroResultsDriveRetry ==
    \A c \in calls :
        /\ Retrying
        /\ Returned(c)
        /\ result[c] = FailedResult
        /\ exit[c] \in {"zero-results", "no-client-context"}
        => attempts[c] = maxAttempts[c]

\* C21: every reformulation, in whichever attempt, is invoked with the
\* original query of the call (the query no rewrite has touched) and with the
\* current attempt number, and the attempt counter grows by exactly one
\* between consecutive attempts.
C21_ReformulatesOriginal ==
    [][\A c \in Slots :
          /\ pc[c] \in {"check", "verify"} /\ pc'[c] = "while"
                => currentQuery[c].rev = 0
          /\ attempts'[c] # attempts[c] => attempts'[c] = attempts[c] + 1]_vars

\* C22: within one attempt classification completes before any search is
\* dispatched, fusion completes before expansion starts and expansion
\* completes before verification starts; the classification of the next
\* attempt starts only from the loop test, which is reached only after the
\* previous attempt resolved (its zero-result decision, its verification with
\* the reformulation, or its catch block), every earlier attempt having
\* classified exactly once.
C22_Ordering ==
    [][\A c \in Slots : pc'[c] # pc[c] =>
          /\ pc'[c] = "search" => pc[c] = "classify" /\ intent'[c] # NoIntent
          /\ pc'[c] = "expand" => pc[c] = "fuse"
          /\ pc'[c] = "verify" => pc[c] = "expand" /\ rerankedDocuments'[c] = <<>>
          /\ pc'[c] = "classify" => /\ pc[c] = "while"
                                    /\ nClassify[c] = attempts[c]
                                    /\ attempts'[c] = attempts[c] + 1
          /\ pc'[c] = "while" =>
                pc[c] \in {"classify", "search", "check", "verify", "generate"}]_vars

\* the second attempt of a call has reached its verification
C22_Witness == \E c \in Slots : pc[c] = "verify" /\ attempts[c] = 2

\* the position of doc in a ranking (0 when it is not there)
RankOf(ranked, doc) ==
    IF \E i \in 1..Len(ranked) : ranked[i].document = doc
    THEN CHOOSE i \in 1..Len(ranked) : ranked[i].document = doc
    ELSE 0

\* the total the fusion is described to give doc: 1 / (k + rank + 1) for each
\* ranking in which doc has a non-zero score, 0 for a ranking it is absent from
PresentSidesTotal(doc, results, k) ==
    LET n == Len(results)
        denseRanked == SortDescBy(results, [i \in 1..n |-> results[i].denseScore])
        sparseRanked == SortDescBy(results, [i \in 1..n |-> results[i].sparseScore])
        d == RankOf(denseRanked, doc)
        s == RankOf(sparseRanked, doc)
    IN (IF d > 0 /\ denseRanked[d].denseScore > 0 THEN RrfWeight(k, n, d - 1) ELSE 0)
       + (IF s > 0 /\ sparseRanked[s].sparseScore > 0 THEN RrfWeight(k, n, s - 1) ELSE 0)

\* C23: reciprocalRankFusion totals, for each chunk, 1 / (k + rank + 1) over
\* the rankings the chunk is present in and 0 for a ranking it is absent from
\* (score 0 on that side); the output is in descending order of that total,
\* holds each chunk at most once and has at most the limit of entries. Stated
\* for candidate arrays as combineSearchResults returns them: in descending
\* order of combinedScore, every chunk with a source or an id and matched by
\* at least one side.
C23_RrfAlgorithm ==
    /\ Len(fused) >= 1
    /\ \A i, j \in 1..Len(fusionInput) :
          i < j => fusionInput[i].combinedScore >= fusionInput[j].combinedScore
    /\ \A i \in 1..Len(fusionInput) :
          /\ DocIdOf(fusionInput[i].document) # ""
          /\ fusionInput[i].denseScore + fusionInput[i].sparseScore > 0
    => LET out == fused[1]
       IN /\ \A p, q \in 1..Len(out) :
                p < q => PresentSidesTotal(out[p], fusionInput, fusionK)
                             >= PresentSidesTotal(out[q], fusionInput, fusionK)
          /\ \A p, q \in 1..Len(out) : p # q => out[p] # out[q]
          /\ Len(out) <= RrfLimitSingle

\* C24: the candidate list handed to fusion holds each chunk identity once,
\* and every candidate carries a dense score and a lexical score, a score
\* being 0 exactly when the chunk was absent from that side's results: a
\* chunk found by both searches has two non-zero scores. Stated for the
\* document strategy of retrieveContext, for every pair of answers of the two
\* searches that yields the candidate list held after the search.
C24_UnionKeepsBothScores ==
    \A c \in Slots :
       Retrying /\ pc[c] = "check" /\ intent[c].queryType = "document" =>
          \A sem \in SimilaritySearchWithScore("documents", 0, DefaultTopK),
             bm \in SearchBM25("documents", DefaultTopK, ClientDocs("documents", 0)) :
             hybridResults[c] = HybridResultsOf(CombineHybrid(sem, bm, DefaultTopK)) =>
                /\ \A i, j \in 1..Len(hybridResults[c]) :
                      i # j => hybridResults[c][i].document # hybridResults[c][j].document
                /\ \A i \in 1..Len(hybridResults[c]) :
                      LET h == hybridResults[c][i]
                      IN /\ h.denseScore = 0
                              <=> ~\E j \in 1..Len(sem) : sem[j].document = h.document
                         /\ h.sparseScore = 0
                              <=> ~\E j \in 1..Len(bm) : bm[j].document = h.document

\* C25: parent expansion never raises and never loses a chunk: the step that
\* expands the reranked list ends in the next stage of the attempt, and for
\* each reranked chunk, in the same order, exactly one chunk is in the final
\* list: the chunk itself, or the document the parent lookup returned when
\* the chunk has a parentId and the parent store is initialized; the chunk
\* itself whenever parentId is absent or the store is not initialized.
C25_ExpansionKeepsChunks ==
    [][\A c \in Slots : pc[c] = "expand" /\ pc'[c] # "expand" =>
          LET reranked == rerankedDocuments[c]
              final == finalChunks'[c]
          IN /\ pc'[c] \in {"verify", "final"}
             /\ outcome'[c] = outcome[c]
             /\ Len(final) >= Len(reranked)
             /\ Retrying => Len(final) = Len(reranked)
             /\ \A i \in 1..Len(reranked) :
                   /\ \/ final[i] = reranked[i]
                      \/ /\ reranked[i].parentId # ""
                         /\ docRetriever
                         /\ final[i] \in docVectorStore.docs
                   /\ reranked[i].parentId = "" \/ ~docRetriever
                         => final[i] = reranked[i]]_vars

\* two reranked chunks were expanded into the same parent
C25_Witness ==
    \E c \in Slots :
       /\ Retrying /\ pc[c] = "verify" /\ docRetriever
       /\ Len(finalChunks[c]) = 2
       /\ finalChunks[c][1] = finalChunks[c][2]

\* C26: when the stores of the searched corpora were never initialized, a
\* dispatched hybrid search raises: the search step ends in the throw of
\* retrieveContext or in its catch block with the query untouched, never in a
\* candidate list (empty or not), never in a returned result and never in a
\* reformulation.
C26_NotInitializedIsFatal ==
    [][\A c \in Slots :
          /\ pc[c] = "search" /\ pc'[c] # "search"
          /\ ~docVectorStore.ready /\ ~transcriptVectorStore.ready
          /\ exit'[c] # "missing-scope"
          => /\ \/ pc'[c] = "done" /\ outcome'[c] = "thrown"
                \/ pc'[c] = "while" /\ attempts[c] < maxAttempts[c]
             /\ currentQuery'[c] = currentQuery[c]]_vars

\* C27: the persistent lexical index is read-only during retrieval: a
\* searchBM25 call changes neither the stored index, nor its documents, nor
\* its parameter k, and returns at most its own topK results.
C27_IndexReadOnly ==
    [][/\ bm25Storage' = bm25Storage
       /\ Len(bm25Call'.results) <= bm25Call'.topK]_vars

\* C28: the retry state is local to the call: a step of one retrieveContext
\* call leaves the attempt counter, the current query and every other local
\* of a concurrent call as they were, and leaves the shared stores as they
\* were, so each call computes its result from its own locals and the same
\* stores as when it runs alone.
C28_RequestLocalState ==
    [][\A c, d \in Slots : c # d /\ pc'[c] # pc[c] =>
          /\ attempts'[d] = attempts[d]
          /\ currentQuery'[d] = currentQuery[d]
          /\ pc'[d] = pc[d]
          /\ intent'[d] = intent[d]
          /\ hybridResults'[d] = hybridResults[d]
          /\ rerankedDocuments'[d] = rerankedDocuments[d]
          /\ finalChunks'[d] = finalChunks[d]
          /\ outcome'[d] = outcome[d]
          /\ result'[d] = result[d]
          /\ UNCHANGED <<docVectorStore, transcriptVectorStore, bm25Storage, docRetriever>>]_vars

\* two calls in flight, one in its second attempt with a rewritten query, the
\* other in its first attempt with the query it was given
C28_Witness ==
    \E c, d \in Slots :
       /\ c # d
       /\ pc[c] \in {"classify", "search", "check", "fuse", "expand", "verify"}
       /\ pc[d] \in {"classify", "search", "check", "fuse", "expand", "verify"}
       /\ attempts[c] = 2 /\ currentQuery[c].rev = 1
       /\ attempts[d] = 1 /\ currentQuery[d].rev = 0

\* C29: after the ingestion has processed several files, the lexical index of
\* a corpus contains the chunks of every ingested file of the corpus: a later
\* searchBM25 over that corpus ranks each of them.
C29_LexicalIndexCoversIngested ==
    \A file \in ingested :
       ChunksOfFile(file) \subseteq SearchBM25Pool(IndexNameOf(file), {})

\* C30: the terminal outcomes of the retrying retrieveContext are enumerable:
\* with maxAttempts >= 1 a finished call has returned a success result, a
\* 'failed' result or a 'max-attempts-non-relevant' result, or has thrown from
\* attempt number maxAttempts; the 'max-attempts-reached' result after the
\* loop is returned only when maxAttempts is 0 (or below).
C30_TerminalOutcomes ==
    \A c \in Slots : Retrying /\ Done(c) =>
       /\ maxAttempts[c] >= 1 =>
             \/ /\ outcome[c] = "returned"
                /\ \/ exit[c] = "success" /\ result[c].searchStrategy = SuccessTag(attempts[c])
                   \/ result[c] = FailedResult
                   \/ result[c] = NonRelevantResult
             \/ outcome[c] = "thrown" /\ attempts[c] = maxAttempts[c]
       /\ outcome[c] = "returned" /\ result[c] = MaxAttemptsReachedResult
             => maxAttempts[c] <= 0 /\ exit[c] = "loop-exit"

\* a call with three attempts allowed threw from its third attempt, after the
\* exceptions of the first two were caught
C30_Witness ==
    \E c \in Slots :
       /\ Retrying /\ Done(c) /\ outcome[c] = "thrown"
       /\ maxAttempts[c] = 3 /\ attempts[c] = 3
       /\ ~allZero[c] /\ ~allRefused[c]

====
